---- MODULE Spec2Model ----
(***************************************************************************)
(* Travel switch hold state machine                                        *)
(* (modules/travel_switch/src/travel_switch.c).                            *)
(*                                                                         *)
(* Every handler runs to completion (spec section 5), so a handler is one  *)
(* action.  A delayable work item is a boolean "scheduled and not yet      *)
(* run"; its expiry is the action that clears the flag and runs the        *)
(* handler.  k_work_schedule() on an item that is already scheduled keeps  *)
(* the old deadline, k_work_submit() on a queued item is a no-op: both are *)
(* "flag becomes TRUE".  led is the value last written to the indicator    *)
(* line.  sys_poweroff() is the platform primitive: it either halts the    *)
(* machine (running becomes FALSE, nothing runs any more) or returns.      *)
(***************************************************************************)
EXTENDS Integers, Sequences, FiniteSets, TLC

\* ---- bounds ----
MaxBlinkCount == 2

\* The largest value of a uint32_t is 2^32 - 1; the largest integer the model
\* checker represents, 2^31 - 1, stands for it.
UINT32_MAX == 2147483647

\* ---- enum travel_state ----
STATE_IDLE == "STATE_IDLE"
STATE_HOLD_PENDING == "STATE_HOLD_PENDING"
STATE_LED_COOLDOWN == "STATE_LED_COOLDOWN"
STATE_BLINK_SEQUENCE == "STATE_BLINK_SEQUENCE"
STATE_WAKEUP_HOLD_PENDING == "STATE_WAKEUP_HOLD_PENDING"
STATE_SHUTTING_DOWN == "STATE_SHUTTING_DOWN"

travel_state ==
    {STATE_IDLE, STATE_HOLD_PENDING, STATE_LED_COOLDOWN, STATE_BLINK_SEQUENCE,
     STATE_WAKEUP_HOLD_PENDING, STATE_SHUTTING_DOWN}

\* Outcomes of the boot-time checks of travel_switch_init, in code order.
BootOutcomes ==
    {"led_not_ready", "led_config_error", "switch_not_ready",
     "switch_config_error", "switch_read_error", "held", "not_held"}

VARIABLES
    state,              \* static enum travel_state state
    blink_remaining,    \* static uint32_t blink_remaining
    blink_led_is_on,    \* static bool blink_led_is_on
    switch_pressed,     \* static bool switch_pressed
    led,                \* value last written to led_gpio
    hold_timer_work,    \* hold_timer_work is scheduled
    led_timeout_work,   \* led_timeout_work is scheduled
    blink_step_work,    \* blink_step_work is scheduled
    soft_off_work,      \* soft_off_work is queued
    blink_count,        \* devicetree property blink-count
    pc,                 \* "boot" before travel_switch_init, "run" after
    running,            \* FALSE once sys_poweroff() has halted the machine
    soft_off_calls,     \* history: callers of enter_soft_off(), in order
    last_event,         \* history: the handler that ran last
    last_input,         \* history: the input event delivered last
    boot_result,        \* history: outcome of the boot-time checks
    released_since_arm, \* history: a release was delivered since the
                        \*          hold-timer was last armed
    led_ever_on,        \* history: the indicator has been on
    led_off_seen,       \* history: the indicator has been off since the
                        \*          press that left Idle
    repressed,          \* history: LedCooldown -> HoldPending happened since
                        \*          the press that left Idle
    blink_cycles        \* history: completed off-on-off cycles of the
                        \*          indicator since BlinkSequence was entered

progVars ==
    <<state, blink_remaining, blink_led_is_on, switch_pressed, led,
      hold_timer_work, led_timeout_work, blink_step_work, soft_off_work,
      running, soft_off_calls>>

histVars ==
    <<last_event, last_input, boot_result, released_since_arm, led_ever_on, led_off_seen,
      repressed, blink_cycles>>

vars == <<progVars, blink_count, pc, histVars>>

\* ------------------------------------------------------------------------
\* Output helpers
\* ------------------------------------------------------------------------
led_on == led' = TRUE

led_off == led' = FALSE

\* Platform primitive: halts, or (abnormally) returns to the caller.
sys_poweroff == running' \in BOOLEAN

enter_soft_off(caller) ==
    /\ soft_off_calls' = Append(soft_off_calls, caller)
    /\ state' = STATE_SHUTTING_DOWN
    /\ led_off
    /\ sys_poweroff

soft_off_handler ==
    /\ enter_soft_off("soft_off_work")
    /\ UNCHANGED <<blink_remaining, blink_led_is_on, switch_pressed,
                   hold_timer_work, led_timeout_work, blink_step_work>>

\* Variant: the indicator is left as the hold left it.
start_blink_sequence_no_led_off ==
    /\ state' = STATE_BLINK_SEQUENCE
    /\ blink_remaining' = blink_count
    /\ blink_led_is_on' = FALSE
    /\ UNCHANGED led
    /\ blink_step_work' = TRUE

start_blink_sequence ==
    /\ state' = STATE_BLINK_SEQUENCE
    /\ blink_remaining' = blink_count
    /\ blink_led_is_on' = FALSE
    /\ led_off
    /\ blink_step_work' = TRUE

\* ------------------------------------------------------------------------
\* Timer handlers.  Each handler also says what becomes of its own work
\* item: rescheduled (TRUE) or consumed by this expiry (FALSE).
\* ------------------------------------------------------------------------
\* Variant: a validated wake resumes normal operation.
hold_timer_handler_wakeup_to_idle ==
    /\ hold_timer_work' = FALSE
    /\ IF state = STATE_HOLD_PENDING
       THEN /\ start_blink_sequence
            /\ UNCHANGED <<switch_pressed, led_timeout_work, soft_off_work,
                           running, soft_off_calls>>
       ELSE IF state = STATE_WAKEUP_HOLD_PENDING
       THEN /\ state' = STATE_IDLE
            /\ led_off
            /\ UNCHANGED <<blink_remaining, blink_led_is_on, switch_pressed,
                           led_timeout_work, blink_step_work, soft_off_work,
                           running, soft_off_calls>>
       ELSE UNCHANGED <<state, blink_remaining, blink_led_is_on,
                        switch_pressed, led, led_timeout_work,
                        blink_step_work, soft_off_work, running,
                        soft_off_calls>>

\* Variant: only STATE_HOLD_PENDING confirms a hold.
hold_timer_handler_hold_pending_only ==
    /\ hold_timer_work' = FALSE
    /\ IF state = STATE_HOLD_PENDING
       THEN /\ start_blink_sequence
            /\ UNCHANGED <<switch_pressed, led_timeout_work, soft_off_work,
                           running, soft_off_calls>>
       ELSE UNCHANGED <<state, blink_remaining, blink_led_is_on,
                        switch_pressed, led, led_timeout_work,
                        blink_step_work, soft_off_work, running,
                        soft_off_calls>>

hold_timer_handler ==
    /\ hold_timer_work' = FALSE
    /\ IF state = STATE_HOLD_PENDING \/ state = STATE_WAKEUP_HOLD_PENDING
       THEN /\ start_blink_sequence
            /\ UNCHANGED <<switch_pressed, led_timeout_work, soft_off_work,
                           running, soft_off_calls>>
       ELSE UNCHANGED <<state, blink_remaining, blink_led_is_on,
                        switch_pressed, led, led_timeout_work,
                        blink_step_work, soft_off_work, running,
                        soft_off_calls>>

\* Variant: the return to Idle forgets the indicator.
led_timeout_handler_no_led_off ==
    /\ led_timeout_work' = FALSE
    /\ IF state = STATE_LED_COOLDOWN
       THEN /\ state' = STATE_IDLE
            /\ UNCHANGED <<blink_remaining, blink_led_is_on, switch_pressed,
                           led, hold_timer_work, blink_step_work,
                           soft_off_work, running, soft_off_calls>>
       ELSE UNCHANGED <<state, blink_remaining, blink_led_is_on,
                        switch_pressed, led, hold_timer_work,
                        blink_step_work, soft_off_work, running,
                        soft_off_calls>>

led_timeout_handler ==
    /\ led_timeout_work' = FALSE
    /\ IF state = STATE_LED_COOLDOWN
       THEN /\ led_off
            /\ state' = STATE_IDLE
            /\ UNCHANGED <<blink_remaining, blink_led_is_on, switch_pressed,
                           hold_timer_work, blink_step_work, soft_off_work,
                           running, soft_off_calls>>
       ELSE UNCHANGED <<state, blink_remaining, blink_led_is_on,
                        switch_pressed, led, hold_timer_work,
                        blink_step_work, soft_off_work, running,
                        soft_off_calls>>

\* blink_remaining == 0: the sequence is complete.
blink_sequence_complete ==
    /\ blink_step_work' = FALSE
    /\ IF ~switch_pressed
       THEN /\ led_off
            /\ enter_soft_off("blink_step")
       ELSE /\ led_off
            /\ UNCHANGED <<state, running, soft_off_calls>>
    /\ UNCHANGED <<blink_remaining, blink_led_is_on, switch_pressed,
                   hold_timer_work, led_timeout_work, soft_off_work>>

\* First half of a blink cycle: indicator on.
blink_half_on ==
    /\ led_on
    /\ blink_led_is_on' = TRUE
    /\ blink_step_work' = TRUE
    /\ UNCHANGED <<state, blink_remaining, switch_pressed, hold_timer_work,
                   led_timeout_work, soft_off_work, running, soft_off_calls>>

\* blink_remaining-- on a uint32_t: 0 wraps to UINT32_MAX.
u32_dec(x) == IF x = 0 THEN UINT32_MAX ELSE x - 1

\* Variant: the step that brings blink_remaining to 0 completes the
\* sequence itself.
blink_half_off_completes ==
    /\ led_off
    /\ blink_led_is_on' = FALSE
    /\ blink_remaining' = u32_dec(blink_remaining)
    /\ IF u32_dec(blink_remaining) = 0
       THEN /\ blink_step_work' = FALSE
            /\ IF ~switch_pressed
               THEN enter_soft_off("blink_step")
               ELSE UNCHANGED <<state, running, soft_off_calls>>
       ELSE /\ blink_step_work' = TRUE
            /\ UNCHANGED <<state, running, soft_off_calls>>
    /\ UNCHANGED <<switch_pressed, hold_timer_work, led_timeout_work,
                   soft_off_work>>

\* Second half: indicator off, one cycle done.
blink_half_off ==
    /\ led_off
    /\ blink_led_is_on' = FALSE
    /\ blink_remaining' = u32_dec(blink_remaining)
    /\ blink_step_work' = TRUE
    /\ UNCHANGED <<state, switch_pressed, hold_timer_work, led_timeout_work,
                   soft_off_work, running, soft_off_calls>>

\* Variant: the handler does not test blink_remaining before it blinks.
blink_step_handler_no_zero_test ==
    IF state # STATE_BLINK_SEQUENCE
    THEN /\ blink_step_work' = FALSE
         /\ UNCHANGED <<state, blink_remaining, blink_led_is_on,
                        switch_pressed, led, hold_timer_work,
                        led_timeout_work, soft_off_work, running,
                        soft_off_calls>>
    ELSE IF ~blink_led_is_on THEN blink_half_on
    ELSE blink_half_off

\* Variant: the handler does not look at the state.
blink_step_handler_no_state_guard ==
    IF blink_remaining = 0 THEN blink_sequence_complete
    ELSE IF ~blink_led_is_on THEN blink_half_on
    ELSE blink_half_off

blink_step_handler ==
    IF state # STATE_BLINK_SEQUENCE
    THEN /\ blink_step_work' = FALSE
         /\ UNCHANGED <<state, blink_remaining, blink_led_is_on,
                        switch_pressed, led, hold_timer_work,
                        led_timeout_work, soft_off_work, running,
                        soft_off_calls>>
    ELSE IF blink_remaining = 0 THEN blink_sequence_complete
    ELSE IF ~blink_led_is_on THEN blink_half_on
    ELSE blink_half_off

\* ------------------------------------------------------------------------
\* Input handlers.  on_press_X / on_release_X is the arm "case X:" of the
\* handler's switch.
\* ------------------------------------------------------------------------
on_press_IDLE ==
    /\ state' = STATE_HOLD_PENDING
    /\ led_on
    /\ hold_timer_work' = TRUE
    /\ UNCHANGED led_timeout_work

on_press_LED_COOLDOWN ==
    /\ led_timeout_work' = FALSE
    /\ state' = STATE_HOLD_PENDING
    /\ led_on
    /\ hold_timer_work' = TRUE

\* Variant: a press during the blink sequence aborts the shutdown.
on_press_ignored_abort_blink ==
    IF state = STATE_BLINK_SEQUENCE
    THEN /\ state' = STATE_IDLE
         /\ led_off
         /\ UNCHANGED <<hold_timer_work, led_timeout_work>>
    ELSE UNCHANGED <<state, led, hold_timer_work, led_timeout_work>>

\* Variant: STATE_SHUTTING_DOWN is handled like STATE_IDLE.
on_press_ignored_except_shutdown ==
    IF state = STATE_SHUTTING_DOWN
    THEN on_press_IDLE
    ELSE UNCHANGED <<state, led, hold_timer_work, led_timeout_work>>

on_press_ignored ==
    UNCHANGED <<state, led, hold_timer_work, led_timeout_work>>

\* Variant: the held flag is set only by the arms that act on the press.
on_press_flag_in_arms ==
    /\ CASE state = STATE_IDLE ->
              switch_pressed' = TRUE /\ on_press_IDLE
         [] state = STATE_LED_COOLDOWN ->
              switch_pressed' = TRUE /\ on_press_LED_COOLDOWN
         [] state \in {STATE_BLINK_SEQUENCE, STATE_HOLD_PENDING,
                       STATE_WAKEUP_HOLD_PENDING, STATE_SHUTTING_DOWN} ->
              UNCHANGED switch_pressed /\ on_press_ignored
    /\ UNCHANGED <<blink_remaining, blink_led_is_on, blink_step_work,
                   soft_off_work, running, soft_off_calls>>

on_press ==
    /\ switch_pressed' = TRUE
    /\ CASE state = STATE_IDLE -> on_press_IDLE
         [] state = STATE_LED_COOLDOWN -> on_press_LED_COOLDOWN
         [] state \in {STATE_BLINK_SEQUENCE, STATE_HOLD_PENDING,
                       STATE_WAKEUP_HOLD_PENDING, STATE_SHUTTING_DOWN} ->
              on_press_ignored
    /\ UNCHANGED <<blink_remaining, blink_led_is_on, blink_step_work,
                   soft_off_work, running, soft_off_calls>>

\* Variant: the hold-timer is not cancelled.
on_release_HOLD_PENDING_no_cancel ==
    /\ UNCHANGED hold_timer_work
    /\ state' = STATE_LED_COOLDOWN
    /\ led_timeout_work' = TRUE
    /\ UNCHANGED <<led, soft_off_work, running, soft_off_calls>>

\* Variant: the indicator goes off as soon as the switch is released.
on_release_HOLD_PENDING_led_off ==
    /\ hold_timer_work' = FALSE
    /\ state' = STATE_LED_COOLDOWN
    /\ led_off
    /\ led_timeout_work' = TRUE
    /\ UNCHANGED <<soft_off_work, running, soft_off_calls>>

on_release_HOLD_PENDING ==
    /\ hold_timer_work' = FALSE
    /\ state' = STATE_LED_COOLDOWN
    /\ led_timeout_work' = TRUE
    /\ UNCHANGED <<led, soft_off_work, running, soft_off_calls>>

\* Variant: the terminal action is deferred to the work queue.
on_release_WAKEUP_HOLD_PENDING_deferred ==
    /\ hold_timer_work' = FALSE
    /\ led_off
    /\ soft_off_work' = TRUE
    /\ UNCHANGED <<state, led_timeout_work, running, soft_off_calls>>

on_release_WAKEUP_HOLD_PENDING ==
    /\ hold_timer_work' = FALSE
    /\ led_off
    /\ enter_soft_off("on_release")
    /\ UNCHANGED <<led_timeout_work, soft_off_work>>

\* Variant: the release never submits the terminal action.
on_release_BLINK_SEQUENCE_no_submit ==
    UNCHANGED <<state, led, hold_timer_work, led_timeout_work, soft_off_work,
                running, soft_off_calls>>

\* Variant: the release submits the terminal action without looking at
\* blink_remaining.
on_release_BLINK_SEQUENCE_always_submit ==
    /\ soft_off_work' = TRUE
    /\ UNCHANGED <<state, led, hold_timer_work, led_timeout_work, running,
                   soft_off_calls>>

on_release_BLINK_SEQUENCE ==
    /\ soft_off_work' = (IF blink_remaining = 0 THEN TRUE ELSE soft_off_work)
    /\ UNCHANGED <<state, led, hold_timer_work, led_timeout_work, running,
                   soft_off_calls>>

on_release_ignored ==
    UNCHANGED <<state, led, hold_timer_work, led_timeout_work, soft_off_work,
                running, soft_off_calls>>

on_release ==
    /\ switch_pressed' = FALSE
    /\ CASE state = STATE_HOLD_PENDING -> on_release_HOLD_PENDING
         [] state = STATE_WAKEUP_HOLD_PENDING ->
              on_release_WAKEUP_HOLD_PENDING
         [] state = STATE_BLINK_SEQUENCE -> on_release_BLINK_SEQUENCE
         [] state \in {STATE_IDLE, STATE_LED_COOLDOWN,
                       STATE_SHUTTING_DOWN} -> on_release_ignored
    /\ UNCHANGED <<blink_remaining, blink_led_is_on, blink_step_work>>

\* ------------------------------------------------------------------------
\* Boot
\* ------------------------------------------------------------------------
\* pin_state != 0: the switch is held at boot.
init_switch_pressed ==
    /\ switch_pressed' = TRUE
    /\ state' = STATE_WAKEUP_HOLD_PENDING
    /\ led_on
    /\ hold_timer_work' = TRUE
    /\ UNCHANGED <<blink_remaining, blink_led_is_on, led_timeout_work,
                   blink_step_work, soft_off_work, running, soft_off_calls>>

\* Variant: a switch that is not held at boot is a normal cold boot.
init_switch_not_pressed_cold_boot ==
    /\ state' = STATE_IDLE
    /\ UNCHANGED <<blink_remaining, blink_led_is_on, switch_pressed, led,
                   hold_timer_work, led_timeout_work, blink_step_work,
                   soft_off_work, running, soft_off_calls>>

\* pin_state == 0: the wake was a bump.
init_switch_not_pressed ==
    /\ enter_soft_off("init")
    /\ UNCHANGED <<blink_remaining, blink_led_is_on, switch_pressed,
                   hold_timer_work, led_timeout_work, blink_step_work,
                   soft_off_work>>

\* Variant: a failed read of the switch line counts as "not held"
\* (pin_state <= 0).
travel_switch_init_read_error_not_held(outcome) ==
    CASE outcome \in {"led_not_ready", "led_config_error"} ->
           UNCHANGED progVars
      [] outcome \in {"switch_not_ready", "switch_config_error"} ->
           /\ state' = STATE_IDLE
           /\ UNCHANGED <<blink_remaining, blink_led_is_on, switch_pressed,
                          led, hold_timer_work, led_timeout_work,
                          blink_step_work, soft_off_work, running,
                          soft_off_calls>>
      [] outcome = "held" -> init_switch_pressed
      [] outcome \in {"switch_read_error", "not_held"} ->
           init_switch_not_pressed

travel_switch_init(outcome) ==
    CASE outcome \in {"led_not_ready", "led_config_error"} ->
           UNCHANGED progVars
      [] outcome \in {"switch_not_ready", "switch_config_error",
                      "switch_read_error"} ->
           /\ state' = STATE_IDLE
           /\ UNCHANGED <<blink_remaining, blink_led_is_on, switch_pressed,
                          led, hold_timer_work, led_timeout_work,
                          blink_step_work, soft_off_work, running,
                          soft_off_calls>>
      [] outcome = "held" -> init_switch_pressed
      [] outcome = "not_held" -> init_switch_not_pressed

\* ------------------------------------------------------------------------
\* History variables, computed from what the step did.
\* ------------------------------------------------------------------------
Observe(ev) ==
    /\ last_event' = ev
    /\ last_input' = (IF ev \in {"press", "release"} THEN ev ELSE last_input)
    /\ released_since_arm' =
         IF ~hold_timer_work /\ hold_timer_work' THEN FALSE
         ELSE IF ev = "release" THEN TRUE
         ELSE released_since_arm
    /\ led_ever_on' = (led_ever_on \/ led')
    /\ led_off_seen' =
         IF state = STATE_IDLE /\ state' = STATE_HOLD_PENDING THEN FALSE
         ELSE (led_off_seen \/ ~led')
    /\ repressed' =
         IF state = STATE_IDLE /\ state' = STATE_HOLD_PENDING THEN FALSE
         ELSE IF state = STATE_LED_COOLDOWN /\ state' = STATE_HOLD_PENDING
         THEN TRUE
         ELSE repressed
    /\ blink_cycles' =
         IF state # STATE_BLINK_SEQUENCE /\ state' = STATE_BLINK_SEQUENCE
         THEN 0
         ELSE IF state = STATE_BLINK_SEQUENCE /\ led /\ ~led'
         THEN blink_cycles + 1
         ELSE blink_cycles

\* ------------------------------------------------------------------------
\* Specification
\* ------------------------------------------------------------------------
Init ==
    /\ state = STATE_IDLE
    /\ blink_remaining = 0
    /\ blink_led_is_on = FALSE
    /\ switch_pressed = FALSE
    /\ led = FALSE
    /\ hold_timer_work = FALSE
    /\ led_timeout_work = FALSE
    /\ blink_step_work = FALSE
    /\ soft_off_work = FALSE
    /\ blink_count \in 1..MaxBlinkCount
    /\ pc = "boot"
    /\ running = TRUE
    /\ soft_off_calls = <<>>
    /\ last_event = "none"
    /\ last_input = "none"
    /\ boot_result = "none"
    /\ released_since_arm = FALSE
    /\ led_ever_on = FALSE
    /\ led_off_seen = TRUE
    /\ repressed = FALSE
    /\ blink_cycles = 0

Boot ==
    /\ pc = "boot"
    /\ running
    /\ \E outcome \in BootOutcomes :
          /\ travel_switch_init(outcome)
          /\ boot_result' = outcome
    /\ pc' = "run"
    /\ Observe("boot")
    /\ UNCHANGED blink_count

Handling ==
    /\ pc = "run"
    /\ running
    /\ UNCHANGED <<pc, blink_count, boot_result>>

Press == Handling /\ on_press /\ Observe("press")

Release == Handling /\ on_release /\ Observe("release")

HoldTimerExpire ==
    Handling /\ hold_timer_work /\ hold_timer_handler /\ Observe("hold_timer")

LedTimeoutExpire ==
    Handling /\ led_timeout_work /\ led_timeout_handler
             /\ Observe("led_timeout")

BlinkStepExpire ==
    Handling /\ blink_step_work /\ blink_step_handler /\ Observe("blink_step")

SoftOffRun ==
    /\ Handling
    /\ soft_off_work
    /\ soft_off_work' = FALSE
    /\ soft_off_handler
    /\ Observe("soft_off_work")

Next ==
    \/ Boot
    \/ Press
    \/ Release
    \/ HoldTimerExpire
    \/ LedTimeoutExpire
    \/ BlinkStepExpire
    \/ SoftOffRun

Spec == Init /\ [][Next]_vars

\* The work queue runs every submitted item and every timer that stays
\* scheduled expires.
FairSpec ==
    /\ Spec
    /\ WF_vars(Boot)
    /\ WF_vars(HoldTimerExpire)
    /\ WF_vars(LedTimeoutExpire)
    /\ WF_vars(BlinkStepExpire)
    /\ WF_vars(SoftOffRun)

TypeOK ==
    /\ state \in travel_state
    /\ blink_remaining \in 0..blink_count
    /\ blink_led_is_on \in BOOLEAN
    /\ switch_pressed \in BOOLEAN
    /\ led \in BOOLEAN
    /\ Len(soft_off_calls) <= 2

\* ------------------------------------------------------------------------
\* Properties
\* ------------------------------------------------------------------------
\* C1: enter_soft_off() is invoked at most once per session; the direct call
\* of the blink-step handler and the deferred call submitted by on_release
\* never both happen.
C1_TerminalActionAtMostOnce ==
    /\ Len(soft_off_calls) <= 1
    /\ ~(\E i, j \in DOMAIN soft_off_calls :
            /\ soft_off_calls[i] = "blink_step"
            /\ soft_off_calls[j] = "soft_off_work")

\* C2: BlinkSequence is entered only by the hold-timer handler running in
\* HoldPending or WakeupHoldPending, and then no release has been delivered
\* since the hold-timer was armed; after such a release the hold-timer is
\* not scheduled.
C2_HoldConfirmedOnlyByTimer ==
    [][/\ (state # STATE_BLINK_SEQUENCE /\ state' = STATE_BLINK_SEQUENCE)
            => /\ last_event' = "hold_timer"
               /\ state \in {STATE_HOLD_PENDING, STATE_WAKEUP_HOLD_PENDING}
               /\ hold_timer_work
               /\ ~released_since_arm
       /\ released_since_arm' => ~hold_timer_work']_vars

C2_Witness ==
    /\ state = STATE_BLINK_SEQUENCE
    /\ last_event = "hold_timer"
    /\ ~released_since_arm
    /\ repressed

\* C3: once state is BlinkSequence, if the switch ends up released for good,
\* the terminal action is eventually invoked and state becomes ShuttingDown.
C3_ShutdownEventually ==
    (<>[](~switch_pressed))
        => [](state = STATE_BLINK_SEQUENCE
                => <>(state = STATE_SHUTTING_DOWN /\ Len(soft_off_calls) > 0))

\* The release arrived after the sequence had completed with the switch held.
C3_Witness ==
    /\ state = STATE_SHUTTING_DOWN
    /\ soft_off_calls = <<"soft_off_work">>
    /\ ~switch_pressed
    /\ ~blink_step_work
    /\ last_event = "soft_off_work"

\* C4: once state is ShuttingDown no handler changes the state, turns the
\* indicator on, schedules a timer or queues the deferred work item.
C4_ShuttingDownAbsorbing ==
    [][state = STATE_SHUTTING_DOWN
         => /\ state' = STATE_SHUTTING_DOWN
            /\ ~led'
            /\ hold_timer_work' => hold_timer_work
            /\ led_timeout_work' => led_timeout_work
            /\ blink_step_work' => blink_step_work
            /\ soft_off_work' => soft_off_work]_vars

C4_Witness ==
    /\ state = STATE_SHUTTING_DOWN
    /\ last_event = "press"
    /\ switch_pressed
    /\ Len(soft_off_calls) >= 1

\* C5: the indicator is a function of the state: off in Idle, on in
\* HoldPending, WakeupHoldPending and LedCooldown, the blink phase in
\* BlinkSequence, off in ShuttingDown.
C5_IndicatorFunctionOfState ==
    led = CASE state = STATE_IDLE -> FALSE
            [] state = STATE_HOLD_PENDING -> TRUE
            [] state = STATE_WAKEUP_HOLD_PENDING -> TRUE
            [] state = STATE_LED_COOLDOWN -> TRUE
            [] state = STATE_BLINK_SEQUENCE -> blink_led_is_on
            [] state = STATE_SHUTTING_DOWN -> FALSE

C5_Witness ==
    /\ state = STATE_BLINK_SEQUENCE
    /\ blink_led_is_on
    /\ led

\* C6: the terminal action is invoked from BlinkSequence only when
\* blink_remaining is 0 and the indicator, off, has performed exactly
\* blink_count off-on-off cycles since BlinkSequence was entered; while in
\* BlinkSequence the cycles done and the cycles remaining add up to
\* blink_count.
C6_ExactlyBlinkCountCycles ==
    [][/\ (state = STATE_BLINK_SEQUENCE
             /\ Len(soft_off_calls') > Len(soft_off_calls))
            => /\ blink_remaining = 0
               /\ ~led
               /\ blink_cycles = blink_count
               /\ blink_cycles' = blink_count
       /\ state' = STATE_BLINK_SEQUENCE
            => blink_cycles' + blink_remaining' = blink_count]_vars

\* The switch was released before the sequence had completed.
C6_Witness ==
    /\ state = STATE_SHUTTING_DOWN
    /\ soft_off_calls = <<"blink_step">>
    /\ blink_count >= 2
    /\ blink_cycles = blink_count

\* C7: release() in HoldPending moves to LedCooldown with the hold-timer
\* cancelled and the cooldown-timer scheduled; LedCooldown is left only by a
\* press that arms a fresh hold-timer or by the cooldown-timer expiry, which
\* returns to Idle with the indicator off; and one of the two happens.
C7_ReleaseCancelsHold ==
    /\ [][/\ (last_event' = "release" /\ state = STATE_HOLD_PENDING)
               => /\ state' = STATE_LED_COOLDOWN
                  /\ ~hold_timer_work'
                  /\ led_timeout_work'
          /\ (state = STATE_LED_COOLDOWN /\ state' # STATE_LED_COOLDOWN)
               => \/ /\ last_event' = "press"
                     /\ state' = STATE_HOLD_PENDING
                     /\ hold_timer_work'
                     /\ ~released_since_arm'
                  \/ /\ last_event' = "led_timeout"
                     /\ state' = STATE_IDLE
                     /\ ~led']_vars
    /\ (state = STATE_LED_COOLDOWN)
          ~> (state = STATE_HOLD_PENDING \/ (state = STATE_IDLE /\ ~led))

C7_Witness ==
    /\ state = STATE_IDLE
    /\ last_event = "led_timeout"
    /\ ~led
    /\ ~hold_timer_work
    /\ released_since_arm

\* C8: from the press that leaves Idle until BlinkSequence is entered the
\* indicator is never off, whatever the number of HoldPending -> LedCooldown
\* -> HoldPending round trips; the cooldown-timer is not scheduled in
\* HoldPending; the first time the indicator goes off on the way to the
\* shutdown is the entry to BlinkSequence.
C8_IndicatorOnUntilFirstBlinkOff ==
    /\ [](state \in {STATE_HOLD_PENDING, STATE_LED_COOLDOWN}
            => led /\ ~led_off_seen)
    /\ [](state = STATE_HOLD_PENDING => ~led_timeout_work)
    /\ [][(state = STATE_HOLD_PENDING /\ state' = STATE_BLINK_SEQUENCE)
            => ~led_off_seen /\ led /\ ~led']_vars

C8_Witness ==
    /\ state = STATE_BLINK_SEQUENCE
    /\ last_event = "hold_timer"
    /\ repressed
    /\ blink_cycles = 0
    /\ ~led

\* C9: a boot that reads the switch as not held goes straight to
\* ShuttingDown by calling the terminal action from initialization: held
\* flag false, nothing scheduled, indicator never on.
C9_BootNotHeldShutsDown ==
    [][(pc = "boot" /\ boot_result' = "not_held")
         => /\ state' = STATE_SHUTTING_DOWN
            /\ soft_off_calls' = <<"init">>
            /\ ~switch_pressed'
            /\ ~hold_timer_work' /\ ~led_timeout_work' /\ ~blink_step_work'
            /\ ~soft_off_work'
            /\ ~led' /\ ~led_ever_on']_vars

C9_Witness ==
    /\ boot_result = "not_held"
    /\ last_event = "boot"
    /\ state = STATE_SHUTTING_DOWN
    /\ soft_off_calls = <<"init">>

\* C10: release() in WakeupHoldPending cancels the hold-timer, turns the
\* indicator off and calls the terminal action in the handler itself,
\* leaving the deferred queue empty; the state goes to ShuttingDown.
C10_WakeupReleaseIsTerminal ==
    [][(last_event' = "release" /\ state = STATE_WAKEUP_HOLD_PENDING)
         => /\ ~hold_timer_work'
            /\ ~led'
            /\ state' = STATE_SHUTTING_DOWN
            /\ soft_off_calls' = Append(soft_off_calls, "on_release")
            /\ ~soft_off_work'
            /\ ~blink_step_work' /\ ~led_timeout_work']_vars

C10_Witness ==
    /\ boot_result = "held"
    /\ state = STATE_SHUTTING_DOWN
    /\ soft_off_calls = <<"on_release">>
    /\ last_event = "release"

\* Every timer and the deferred queue are as they were.
NoWorkChanged ==
    UNCHANGED <<hold_timer_work, led_timeout_work, blink_step_work,
                soft_off_work>>

BootFailures ==
    {"led_not_ready", "led_config_error", "switch_not_ready",
     "switch_config_error", "switch_read_error"}

\* C11: a boot that reads the switch as held ends with the held flag true,
\* state WakeupHoldPending, the indicator on and the hold-timer scheduled;
\* in WakeupHoldPending as in HoldPending a press changes nothing and the
\* hold-timer expiry starts the blink sequence.
C11_WakeupBehavesAsHoldPending ==
    [][/\ (pc = "boot" /\ boot_result' = "held")
            => /\ switch_pressed'
               /\ state' = STATE_WAKEUP_HOLD_PENDING
               /\ led'
               /\ hold_timer_work'
               /\ ~led_timeout_work' /\ ~blink_step_work' /\ ~soft_off_work'
               /\ soft_off_calls' = <<>>
       /\ (last_event' = "press"
             /\ state \in {STATE_HOLD_PENDING, STATE_WAKEUP_HOLD_PENDING})
            => /\ UNCHANGED <<state, led, blink_remaining, blink_led_is_on,
                              soft_off_calls, running>>
               /\ NoWorkChanged
               /\ switch_pressed'
       /\ (last_event' = "hold_timer"
             /\ state \in {STATE_HOLD_PENDING, STATE_WAKEUP_HOLD_PENDING})
            => /\ state' = STATE_BLINK_SEQUENCE
               /\ blink_remaining' = blink_count
               /\ ~blink_led_is_on'
               /\ ~led'
               /\ blink_step_work'
               /\ ~hold_timer_work'
               /\ UNCHANGED <<switch_pressed, led_timeout_work,
                              soft_off_work, soft_off_calls, running>>]_vars

C11_Witness ==
    /\ boot_result = "held"
    /\ state = STATE_BLINK_SEQUENCE
    /\ last_event = "hold_timer"
    /\ last_input = "press"
    /\ blink_remaining = blink_count

\* C12: every boot-time failure ends initialization in Idle with the held
\* flag false, nothing scheduled and the terminal action not invoked, and a
\* later press in Idle is the normal Idle -> HoldPending transition.
C12_BootFailuresFailOpen ==
    [][/\ (pc = "boot" /\ boot_result' \in BootFailures)
            => /\ state' = STATE_IDLE
               /\ ~switch_pressed'
               /\ ~hold_timer_work' /\ ~led_timeout_work'
               /\ ~blink_step_work' /\ ~soft_off_work'
               /\ soft_off_calls' = <<>>
               /\ running'
       /\ (boot_result \in BootFailures /\ last_event' = "press"
             /\ state = STATE_IDLE)
            => /\ state' = STATE_HOLD_PENDING
               /\ switch_pressed'
               /\ led'
               /\ hold_timer_work']_vars

C12_Witness ==
    /\ boot_result = "switch_read_error"
    /\ state = STATE_HOLD_PENDING
    /\ last_event = "press"
    /\ hold_timer_work
    /\ soft_off_calls = <<>>

\* The blink-step handler runs in BlinkSequence and brings blink_remaining
\* to 0.
LastDecrement ==
    /\ last_event' = "blink_step"
    /\ state = STATE_BLINK_SEQUENCE
    /\ blink_remaining > 0
    /\ blink_remaining' = 0

C14_NoDanglingTimer ==
    /\ hold_timer_work
         => state \in {STATE_HOLD_PENDING, STATE_WAKEUP_HOLD_PENDING}
    /\ led_timeout_work => state = STATE_LED_COOLDOWN
    /\ blink_step_work => state = STATE_BLINK_SEQUENCE

\* C15: from BlinkSequence the state only ever stays BlinkSequence or
\* becomes ShuttingDown, which is never left; a press in BlinkSequence
\* changes nothing but the held flag.
C15_BlinkSequenceNotAbortable ==
    [][/\ state = STATE_BLINK_SEQUENCE
            => state' \in {STATE_BLINK_SEQUENCE, STATE_SHUTTING_DOWN}
       /\ state = STATE_SHUTTING_DOWN => state' = STATE_SHUTTING_DOWN
       /\ (last_event' = "press" /\ state = STATE_BLINK_SEQUENCE)
            => /\ switch_pressed'
               /\ NoWorkChanged
               /\ UNCHANGED <<state, led, blink_remaining, blink_led_is_on,
                              soft_off_calls, running>>]_vars

C15_Witness ==
    /\ state = STATE_BLINK_SEQUENCE
    /\ last_event = "press"
    /\ switch_pressed
    /\ blink_cycles >= 1
    /\ blink_step_work

\* C16: the held flag is the kind of the input event delivered last, in
\* every state, and the boot-time read while no event has been delivered.
C16_HeldFlagTracksLastInput ==
    /\ last_input = "press" => switch_pressed
    /\ last_input = "release" => ~switch_pressed
    /\ last_input = "none" => (switch_pressed <=> boot_result = "held")

C16_Witness ==
    /\ state = STATE_SHUTTING_DOWN
    /\ last_input = "press"
    /\ last_event = "press"
    /\ switch_pressed
    /\ soft_off_calls = <<"blink_step">>

\* What an ignored event may not touch.
NothingButHeldFlag ==
    UNCHANGED <<state, led, blink_remaining, blink_led_is_on, soft_off_work,
                soft_off_calls, running>>

\* C17: an ignored event changes nothing but the held flag: press in
\* HoldPending, BlinkSequence, WakeupHoldPending, ShuttingDown; release in
\* Idle, LedCooldown, ShuttingDown and in BlinkSequence with blink_remaining
\* > 0; a timer expiry in a state that did not arm it, which schedules and
\* cancels nothing (the expired timer itself is no longer scheduled).
C17_IgnoredEventsChangeOnlyHeldFlag ==
    [][/\ (last_event' = "press"
             /\ state \in {STATE_HOLD_PENDING, STATE_BLINK_SEQUENCE,
                           STATE_WAKEUP_HOLD_PENDING, STATE_SHUTTING_DOWN})
            => NothingButHeldFlag /\ NoWorkChanged /\ switch_pressed'
       /\ (last_event' = "release"
             /\ \/ state \in {STATE_IDLE, STATE_LED_COOLDOWN,
                              STATE_SHUTTING_DOWN}
                \/ state = STATE_BLINK_SEQUENCE /\ blink_remaining > 0)
            => NothingButHeldFlag /\ NoWorkChanged /\ ~switch_pressed'
       /\ (last_event' = "hold_timer"
             /\ state \notin {STATE_HOLD_PENDING, STATE_WAKEUP_HOLD_PENDING})
            => /\ NothingButHeldFlag
               /\ UNCHANGED <<switch_pressed, led_timeout_work,
                              blink_step_work>>
               /\ ~hold_timer_work'
       /\ (last_event' = "led_timeout" /\ state # STATE_LED_COOLDOWN)
            => /\ NothingButHeldFlag
               /\ UNCHANGED <<switch_pressed, hold_timer_work,
                              blink_step_work>>
               /\ ~led_timeout_work'
       /\ (last_event' = "blink_step" /\ state # STATE_BLINK_SEQUENCE)
            => /\ NothingButHeldFlag
               /\ UNCHANGED <<switch_pressed, hold_timer_work,
                              led_timeout_work>>
               /\ ~blink_step_work']_vars

\* A blink-step expiry arrived in ShuttingDown with the switch released.
C17_Witness ==
    /\ state = STATE_SHUTTING_DOWN
    /\ last_event = "blink_step"
    /\ soft_off_calls = <<"soft_off_work">>
    /\ ~switch_pressed
    /\ ~blink_step_work

\* C18: after initialization enter_soft_off() runs only while the held flag
\* is false, whoever calls it.
C18_SoftOffOnlyWhileReleased ==
    [][(pc = "run" /\ Len(soft_off_calls') > Len(soft_off_calls))
         => ~switch_pressed']_vars

\* C19: after a boot that read the switch line (held or not held) the state
\* is WakeupHoldPending, BlinkSequence or ShuttingDown; Idle, HoldPending
\* and LedCooldown occur only after a boot-time failure.
C19_WakeNeverReachesIdle ==
    /\ boot_result \in {"held", "not_held"}
         => state \in {STATE_WAKEUP_HOLD_PENDING, STATE_BLINK_SEQUENCE,
                       STATE_SHUTTING_DOWN}
    /\ (pc = "run" /\ state \in {STATE_IDLE, STATE_HOLD_PENDING,
                                 STATE_LED_COOLDOWN})
         => boot_result \in BootFailures

\* A wake validated by a full hold went through the blinks to ShuttingDown.
C19_Witness ==
    /\ boot_result = "held"
    /\ state = STATE_SHUTTING_DOWN
    /\ blink_cycles = blink_count
    /\ Len(soft_off_calls) = 1
    /\ soft_off_calls[1] # "on_release"

\* C20: in BlinkSequence 0 <= blink_remaining <= blink_count; the counter
\* changes only by the reset at entry to BlinkSequence or by a decrement by
\* one from a value > 0, so it never wraps and never grows after entry.
C20_BlinkRemainingNeverUnderflows ==
    /\ [](state = STATE_BLINK_SEQUENCE
            => blink_remaining >= 0 /\ blink_remaining <= blink_count)
    /\ [][blink_remaining' # blink_remaining
            => \/ /\ state # STATE_BLINK_SEQUENCE
                  /\ state' = STATE_BLINK_SEQUENCE
                  /\ blink_remaining' = blink_count
               \/ /\ state = STATE_BLINK_SEQUENCE
                  /\ blink_remaining > 0
                  /\ blink_remaining' = blink_remaining - 1]_vars

\* The handler ran with blink_remaining = 0 and left it there.
C20_Witness ==
    /\ state = STATE_BLINK_SEQUENCE
    /\ blink_remaining = 0
    /\ last_event = "blink_step"
    /\ ~blink_step_work
    /\ blink_cycles = blink_count

====
